---- MODULE Spec2Model ----
(***************************************************************************)
(* Model of the file_url crate (Unix build, target_family = "unix"):       *)
(* percent_ops.rs (component codec), lib.rs (path <-> file URL) and        *)
(* os_str_from_bytes.rs.  Strings, OsStrings and paths are sequences of    *)
(* bytes (integers 0..255).  The functions of std, regex and               *)
(* percent_encoding that the crate calls are modelled at their call sites. *)
(***************************************************************************)
EXTENDS Integers, Sequences, FiniteSets

VARIABLES input, pc, enc, enc2, dec, url, path

vars == <<input, pc, enc, enc2, dec, url, path>>

\* ------------------------------------------------------------------------
\* Bounds of the explored input space
\* ------------------------------------------------------------------------
MaxTokens == 3

\* Building blocks of the inputs: "/", "\", ".", "z", "%", "2", "F", "c",
\* ":", " ", the lone non-ASCII byte 0xF0, U+00E9 and U+1F600 in UTF-8,
\* "%2F" and "file:".
Tokens ==
    { <<47>>, <<92>>, <<46>>, <<122>>, <<37>>, <<50>>, <<70>>, <<99>>,
      <<58>>, <<32>>, <<240>>, <<195, 169>>, <<240, 159, 152, 128>>,
      <<37, 50, 70>>, <<102, 105, 108, 101, 58>> }

RECURSIVE Flatten(_)
Flatten(ss) ==
    IF Len(ss) = 0 THEN <<>> ELSE Head(ss) \o Flatten(Tail(ss))

TokenSeqs == UNION { [1..n -> Tokens] : n \in 0..MaxTokens }

\* Every single byte, and every concatenation of at most MaxTokens tokens.
Inputs ==
    { <<b>> : b \in 0..255 } \cup { Flatten(ts) : ts \in TokenSeqs }

\* Byte i of s exists and lies in lo..hi.
ByteIn(s, i, lo, hi) == i <= Len(s) /\ s[i] \in lo..hi

\* A &str holds well-formed UTF-8 (core::str::from_utf8 is Ok): one-byte
\* sequences, two-byte C2..DF, three-byte E0..EF without overlong forms
\* and surrogates, four-byte F0..F4 up to U+10FFFF.
RECURSIVE IsUtf8From(_, _)
IsUtf8From(s, i) ==
    IF i > Len(s) THEN TRUE
    ELSE IF s[i] < 128 THEN IsUtf8From(s, i + 1)
    ELSE IF s[i] \in 194..223
         THEN ByteIn(s, i + 1, 128, 191) /\ IsUtf8From(s, i + 2)
    ELSE IF s[i] \in 224..239
         THEN /\ \/ s[i] = 224 /\ ByteIn(s, i + 1, 160, 191)
                 \/ s[i] \in (225..236) \cup {238, 239}
                        /\ ByteIn(s, i + 1, 128, 191)
                 \/ s[i] = 237 /\ ByteIn(s, i + 1, 128, 159)
              /\ ByteIn(s, i + 2, 128, 191)
              /\ IsUtf8From(s, i + 3)
    ELSE IF s[i] \in 240..244
         THEN /\ \/ s[i] = 240 /\ ByteIn(s, i + 1, 144, 191)
                 \/ s[i] \in 241..243 /\ ByteIn(s, i + 1, 128, 191)
                 \/ s[i] = 244 /\ ByteIn(s, i + 1, 128, 143)
              /\ ByteIn(s, i + 2, 128, 191)
              /\ ByteIn(s, i + 3, 128, 191)
              /\ IsUtf8From(s, i + 4)
    ELSE FALSE

IsStr(s) == IsUtf8From(s, 1)

\* ------------------------------------------------------------------------
\* percent_ops.rs
\* ------------------------------------------------------------------------
\* percent_encoding::CONTROLS: C0 controls and DEL.
CONTROLS == (0..31) \cup {127}

\* Variant: the full RFC 3986 reserved set, ':' included.
FILE_URL_BYTES_WithColon ==
    CONTROLS \cup
    { 58, 47, 32, 35, 36, 38, 43, 44, 59, 61, 63, 64, 91, 93, 123, 125, 96,
      60, 62, 94, 33, 39, 40, 41, 42 }

FILE_URL_BYTES ==
    CONTROLS \cup
    { 47, 32, 35, 36, 38, 43, 44, 59, 61, 63, 64, 91, 93, 123, 125, 96,
      60, 62, 94, 33, 39, 40, 41, 42 }

\* Uppercase hexadecimal digit of a nibble.
HexUpper(n) ==
    <<48, 49, 50, 51, 52, 53, 54, 55, 56, 57, 65, 66, 67, 68, 69, 70>>[n + 1]

\* "%XX" of one byte, as percent_encoding::percent_encode_byte.
percent_encode_byte(b) == <<37, HexUpper(b \div 16), HexUpper(b % 16)>>

\* percent_encode escapes a byte when it is not ASCII or is in the set.
should_percent_encode(b) == b >= 128 \/ b \in FILE_URL_BYTES

encode_path_component(b) ==
    Flatten([i \in 1..Len(b) |->
                IF should_percent_encode(b[i])
                THEN percent_encode_byte(b[i])
                ELSE <<b[i]>>])

\* Variant: lowercase hex digits are not accepted.
HexValue_UpperOnly(c) ==
    IF c \in 48..57 THEN c - 48
    ELSE IF c \in 65..70 THEN c - 55
    ELSE -1

\* char::to_digit(16) of a byte, -1 for None.
HexValue(c) ==
    IF c \in 48..57 THEN c - 48
    ELSE IF c \in 65..70 THEN c - 55
    ELSE IF c \in 97..102 THEN c - 87
    ELSE -1

\* percent_decode_str(..).collect() from position i on: a '%' followed by
\* two hex digits yields the byte, any other byte yields itself.
RECURSIVE percent_decode(_, _)
percent_decode(s, i) ==
    IF i > Len(s) THEN <<>>
    ELSE IF /\ s[i] = 37
            /\ i + 2 <= Len(s)
            /\ HexValue(s[i + 1]) >= 0
            /\ HexValue(s[i + 2]) >= 0
         THEN <<HexValue(s[i + 1]) * 16 + HexValue(s[i + 2])>>
                  \o percent_decode(s, i + 3)
         ELSE <<s[i]>> \o percent_decode(s, i + 1)

\* DecodeResult is represented by its buff.
decode_path_component(s) == percent_decode(s, 1)

\* ------------------------------------------------------------------------
\* os_str_from_bytes.rs
\* ------------------------------------------------------------------------
\* OsString::from_vec(b.to_vec()): the same bytes, owned.
from_byte_vec(b) == [i \in 1..Len(b) |-> b[i]]

to_os_string(buff) == from_byte_vec(buff)

\* ------------------------------------------------------------------------
\* lib.rs: URL -> path
\* ------------------------------------------------------------------------
SEPARATOR == {47, 92}

FORWARD_SLASH == <<47>>

FILE_SCHEME == <<102, 105, 108, 101, 58>>

\* Regex::split: the pieces between matches, empty pieces included.
RECURSIVE SplitFrom(_, _, _, _)
SplitFrom(s, seps, i, cur) ==
    IF i > Len(s) THEN <<cur>>
    ELSE IF s[i] \in seps
         THEN <<cur>> \o SplitFrom(s, seps, i + 1, <<>>)
         ELSE SplitFrom(s, seps, i + 1, Append(cur, s[i]))

split(s) == SplitFrom(s, SEPARATOR, 1, <<>>)

has_root(p) == Len(p) > 0 /\ p[1] = 47

is_absolute(p) == has_root(p)

\* PathBuf::push on Unix: an absolute argument replaces the buffer,
\* otherwise a separator is added when the buffer does not end with one.
push(buf, p) ==
    IF is_absolute(p) THEN p
    ELSE IF Len(buf) > 0 /\ buf[Len(buf)] # 47 THEN buf \o <<47>> \o p
    ELSE buf \o p

\* FromIterator for PathBuf: push every item onto an empty buffer.
RECURSIVE collect(_, _)
collect(buf, items) ==
    IF Len(items) = 0 THEN buf
    ELSE collect(push(buf, Head(items)), Tail(items))

\* The decoded piece as the OsString that collect() needs.  The closure
\* of file_url_to_pathbuf returns the DecodeResult itself, which is not an
\* OsString; the conversion taken here is the one the specification
\* describes (the decoded segment's raw bytes become the path segment),
\* that is DecodeResult::to_os_string.
decoded_piece(url_piece) ==
    to_os_string(decode_path_component(url_piece))

\* Variant: the scheme piece is decoded like any other piece.
map_piece_NoScheme(i, url_piece) == decoded_piece(url_piece)

\* The closure of file_url_to_pathbuf applied to piece i, its else arm
\* completed by the conversion of decoded_piece.
map_piece(i, url_piece) ==
    IF i = 1 /\ url_piece = FILE_SCHEME
    THEN FORWARD_SLASH
    ELSE decoded_piece(url_piece)

file_url_to_pathbuf(file_url) ==
    LET pieces == split(file_url)
    IN  collect(<<>>, [i \in 1..Len(pieces) |-> map_piece(i, pieces[i])])

\* ------------------------------------------------------------------------
\* lib.rs: path -> URL
\* ------------------------------------------------------------------------
\* Path::components on Unix: RootDir for a leading '/', CurDir for a
\* leading "." of a relative path, then one component per non-empty
\* segment, a "." segment being dropped and ".." being ParentDir.
include_cur_dir(p) ==
    /\ ~has_root(p)
    /\ Len(p) >= 1
    /\ p[1] = 46
    /\ (Len(p) = 1 \/ p[2] = 47)

parse_single_component(seg) ==
    IF seg = <<>> \/ seg = <<46>> THEN <<>>
    ELSE IF seg = <<46, 46>> THEN <<[kind |-> "ParentDir", s |-> seg]>>
    ELSE <<[kind |-> "Normal", s |-> seg]>>

components(p) ==
    LET segs  == SplitFrom(p, {47}, 1, <<>>)
        front == IF has_root(p) THEN <<[kind |-> "RootDir", s |-> <<47>>]>>
                 ELSE IF include_cur_dir(p)
                      THEN <<[kind |-> "CurDir", s |-> <<46>>]>>
                      ELSE <<>>
    IN  front \o Flatten([i \in 1..Len(segs) |-> parse_single_component(segs[i])])

\* Variant: skip(1) whatever the path.
skip_root_Always(p) ==
    IF Len(components(p)) = 0 THEN <<>> ELSE Tail(components(p))

\* Variant: skip(0) whatever the path.
skip_root_Never(p) == components(p)

\* component_iter.skip(1) when has_root(), skip(0) otherwise.
skip_root(p) ==
    IF has_root(p) THEN Tail(components(p)) ELSE components(p)

\* The result of a call that panics.
PANIC == <<-1>>

\* The match of to_file_url on one component.
map_component(c) ==
    IF c.kind \in {"CurDir", "ParentDir"} THEN c.s
    ELSE IF c.kind = "Normal" THEN encode_path_component(c.s)
    ELSE PANIC

\* Vec<String>::join("/")
RECURSIVE join(_, _)
join(items, sep) ==
    IF Len(items) = 0 THEN <<>>
    ELSE IF Len(items) = 1 THEN items[1]
    ELSE items[1] \o sep \o join(Tail(items), sep)

FILE_URL_PREFIX == <<102, 105, 108, 101, 58, 47, 47, 47>>

to_file_url(p) ==
    LET cs      == skip_root(p)
        encoded == [i \in 1..Len(cs) |-> map_component(cs[i])]
    IN  IF \E i \in 1..Len(cs) : encoded[i] = PANIC
        THEN PANIC
        ELSE FILE_URL_PREFIX \o join(encoded, <<47>>)

\* Path equality is equality of the component sequences.
path_eq(p, q) == components(p) = components(q)

\* ------------------------------------------------------------------------
\* The calls a client can make on one input
\* ------------------------------------------------------------------------
None == <<-2>>

Init ==
    /\ input \in Inputs
    /\ pc = "start"
    /\ enc = None
    /\ enc2 = None
    /\ dec = None
    /\ url = None
    /\ path = None

\* encode_path_component(input)
Encode ==
    /\ pc = "start"
    /\ enc' = encode_path_component(input)
    /\ pc' = "encoded"
    /\ UNCHANGED <<input, enc2, dec, url, path>>

\* encode_path_component applied to the encoded component
EncodeAgain ==
    /\ pc = "encoded"
    /\ enc2' = encode_path_component(enc)
    /\ pc' = "reencoded"
    /\ UNCHANGED <<input, enc, dec, url, path>>

\* decode_path_component applied to the encoded component
DecodeEncoded ==
    /\ pc = "encoded"
    /\ dec' = decode_path_component(enc)
    /\ pc' = "roundtrip"
    /\ UNCHANGED <<input, enc, enc2, url, path>>

\* decode_path_component(input)
Decode ==
    /\ pc = "start"
    /\ IsStr(input)
    /\ dec' = decode_path_component(input)
    /\ pc' = "decoded"
    /\ UNCHANGED <<input, enc, enc2, url, path>>

\* Path::new(input).to_file_url()
ToFileUrl ==
    /\ pc = "start"
    /\ url' = to_file_url(input)
    /\ pc' = IF to_file_url(input) = PANIC THEN "panic" ELSE "url"
    /\ UNCHANGED <<input, enc, enc2, dec, path>>

\* file_url_to_pathbuf applied to the URL of the path
PathFromItsUrl ==
    /\ pc = "url"
    /\ path' = file_url_to_pathbuf(url)
    /\ pc' = "pathback"
    /\ UNCHANGED <<input, enc, enc2, dec, url>>

\* file_url_to_pathbuf(input) / PathBuf::from_file_url(input)
FileUrlToPathbuf ==
    /\ pc = "start"
    /\ IsStr(input)
    /\ path' = file_url_to_pathbuf(input)
    /\ pc' = "path"
    /\ UNCHANGED <<input, enc, enc2, dec, url>>

Next ==
    \/ Encode
    \/ EncodeAgain
    \/ DecodeEncoded
    \/ Decode
    \/ ToFileUrl
    \/ PathFromItsUrl
    \/ FileUrlToPathbuf

Spec == Init /\ [][Next]_vars

TypeOK ==
    /\ pc \in {"start", "encoded", "reencoded", "roundtrip", "decoded",
               "url", "panic", "pathback", "path"}
    /\ input \in Inputs

\* ------------------------------------------------------------------------
\* Vocabulary of the properties
\* ------------------------------------------------------------------------
\* The Reserved Byte Set as the specification lists it: ASCII controls,
\* space and / # $ & + , ; = ? @ [ ] { } ` < > ^ ! ' ( ) *
ReservedByteSet ==
    (0..31) \cup {127} \cup {32} \cup
    { 47, 35, 36, 38, 43, 44, 59, 61, 63, 64, 91, 93, 123, 125, 96, 60, 62,
      94, 33, 39, 40, 41, 42 }

\* RFC 3986 unreserved: ALPHA / DIGIT / "-" / "." / "_" / "~"
Unreserved == (65..90) \cup (97..122) \cup (48..57) \cup {45, 46, 95, 126}

UpperHexChar(n) == IF n < 10 THEN 48 + n ELSE 55 + n

Escape(b) == <<37, UpperHexChar(b \div 16), UpperHexChar(b % 16)>>

HasAt(e, j, w) == j + Len(w) - 1 <= Len(e) /\ SubSeq(e, j, j + Len(w) - 1) = w

Bytes(s) == { s[i] : i \in 1..Len(s) }

\* e is b written byte by byte from (i, j) on, each byte of Must as its
\* escape, each byte of Lit as itself, any other byte as either.
RECURSIVE Written(_, _, _, _, _, _)
Written(b, e, i, j, Must, Lit) ==
    IF i > Len(b) THEN j = Len(e) + 1
    ELSE LET esc == HasAt(e, j, Escape(b[i])) /\ Written(b, e, i + 1, j + 3, Must, Lit)
             lit == HasAt(e, j, <<b[i]>>) /\ Written(b, e, i + 1, j + 1, Must, Lit)
         IN  IF b[i] \in Must THEN esc
             ELSE IF b[i] \in Lit THEN lit
             ELSE lit \/ esc

\* ------------------------------------------------------------------------
\* C1
\* ------------------------------------------------------------------------
\* C1: for every byte sequence b without the separator byte '/',
\* decode_path_component(encode_path_component(b)) is exactly b.
C1_CodecRoundTrip ==
    (pc = "roundtrip" /\ 47 \notin Bytes(input)) => dec = input

\* ------------------------------------------------------------------------
\* C2
\* ------------------------------------------------------------------------
\* C2: for every path p, file_url_to_pathbuf(p.to_file_url()) equals p.
C2_PathRoundTrip ==
    pc = "pathback" => path_eq(path, input)

\* ------------------------------------------------------------------------
\* C3
\* ------------------------------------------------------------------------
\* C3: wherever it occurs in the component, every byte of the Reserved Byte
\* Set and every byte >= 0x80 is written as '%' and its two uppercase hex
\* digits, and ':' is written as itself.
C3_ReservedEscaped ==
    pc = "encoded" =>
        Written(input, enc, 1, 1, ReservedByteSet \cup (128..255), {58})

\* A component "z:" followed by a reserved or non-ASCII byte was encoded.
C3_Witness ==
    /\ pc = "encoded"
    /\ Len(input) = 3
    /\ input[1] = 122
    /\ input[2] = 58
    /\ input[3] \in ReservedByteSet \cup (128..255)

\* ------------------------------------------------------------------------
\* C4
\* ------------------------------------------------------------------------
C4_OriginalItem(b) ==
    IF b \in Unreserved /\ b \notin ReservedByteSet THEN <<b>> ELSE Escape(b)

\* C4 as stated: a byte is emitted literally if and only if it is RFC 3986
\* unreserved and not in the Reserved Byte Set, every other byte as %XX.
C4_LiteralIffUnreserved ==
    pc = "encoded" =>
        enc = Flatten([i \in 1..Len(input) |-> C4_OriginalItem(input[i])])

\* ------------------------------------------------------------------------
\* C5
\* ------------------------------------------------------------------------
\* C5: every raw '%' is emitted as "%25", encoding an encoded component
\* that contains an escape changes it, and a component of unreserved ASCII
\* characters is returned unchanged.
C5_PercentReEscaped ==
    pc = "reencoded" =>
        /\ Written(input, enc, 1, 1, {37}, {})
        /\ (37 \in Bytes(enc) => enc2 # enc)
        /\ (Bytes(input) \subseteq Unreserved => enc = input)

\* ------------------------------------------------------------------------
\* C6
\* ------------------------------------------------------------------------
NotRoot(c) == c.kind # "RootDir"

C6_Item(c) ==
    IF c.kind \in {"CurDir", "ParentDir"} THEN c.s
    ELSE encode_path_component(c.s)

\* C6: the URL is "file:///" followed by the '/'-join of one item per
\* component other than the root, in order: '.' and '..' as themselves, a
\* normal component encoded; no other separator is added or removed.
C6_UrlFormat ==
    pc = "url" =>
        LET comps  == SelectSeq(components(input), NotRoot)
            rest   == SubSeq(url, 9, Len(url))
            pieces == SplitFrom(rest, {47}, 1, <<>>)
        IN  /\ HasAt(url, 1, <<102, 105, 108, 101, 58, 47, 47, 47>>)
            /\ IF Len(comps) = 0 THEN rest = <<>>
               ELSE /\ Len(pieces) = Len(comps)
                    /\ \A i \in 1..Len(comps) : pieces[i] = C6_Item(comps[i])

\* A path of two components, one of them needing an escape, was converted.
C6_Witness ==
    /\ pc = "url"
    /\ Len(SelectSeq(components(input), NotRoot)) = 2
    /\ 32 \in Bytes(input)
    /\ Len(url) > Len(input) + 8

\* ------------------------------------------------------------------------
\* C7
\* ------------------------------------------------------------------------
\* C7 as stated: for every input string the returned path is absolute.
C7_AlwaysAbsolute ==
    pc = "path" => is_absolute(path)

\* C7 amended: the input is split on '/' and '\', a first piece equal to
\* "file:" is replaced by the root marker, and for every input whose first
\* piece is exactly "file:" the returned path is absolute.
C7_AbsoluteWhenScheme ==
    (pc = "path" /\ split(input)[1] = <<102, 105, 108, 101, 58>>)
        => (Len(path) >= 1 /\ path[1] = 47)

\* A URL "file:" + separator + a piece was converted.
C7_Witness ==
    /\ pc = "path"
    /\ Len(split(input)) = 2
    /\ split(input)[1] = <<102, 105, 108, 101, 58>>
    /\ split(input)[2] = <<122>>
    /\ path = <<47, 122>>

\* ------------------------------------------------------------------------
\* C8
\* ------------------------------------------------------------------------
IsHexChar(c) == c \in (48..57) \cup (65..70) \cup (97..102)

HexCharValue(c) ==
    CHOOSE v \in 0..15 : c = UpperHexChar(v) \/ (v >= 10 /\ c = 87 + v)

\* The positions where a well-formed triplet starts.
Triplets(s) ==
    { i \in 1..Len(s) :
        i + 2 <= Len(s) /\ s[i] = 37 /\ IsHexChar(s[i + 1]) /\ IsHexChar(s[i + 2]) }

\* The positions that produce an output byte.
Producing(s) ==
    { i \in 1..Len(s) : (i - 1) \notin Triplets(s) /\ (i - 2) \notin Triplets(s) }

\* C8: each well-formed %XX is replaced by its byte; every other byte, a
\* '%' not followed by two hex digits included, is copied, in order.
C8_LenientDecode ==
    pc = "decoded" =>
        /\ Len(dec) = Cardinality(Producing(input))
        /\ \A i \in Producing(input) :
              LET k == Cardinality({ j \in Producing(input) : j <= i })
              IN  dec[k] = IF i \in Triplets(input)
                           THEN 16 * HexCharValue(input[i + 1])
                                    + HexCharValue(input[i + 2])
                           ELSE input[i]

\* A string with a malformed '%' and a well-formed triplet was decoded.
C8_Witness ==
    /\ pc = "decoded"
    /\ Triplets(input) # {}
    /\ \E i \in 1..Len(input) : input[i] = 37 /\ i \notin Triplets(input)

\* ------------------------------------------------------------------------
\* C9
\* ------------------------------------------------------------------------
\* The pieces put one after the other, nothing discarded.
RECURSIVE InOrder(_, _)
InOrder(buf, items) ==
    IF Len(items) = 0 THEN buf
    ELSE IF Len(Head(items)) = 0 THEN InOrder(buf, Tail(items))
    ELSE IF Len(buf) > 0 /\ buf[Len(buf)] # 47
         THEN InOrder(buf \o <<47>> \o Head(items), Tail(items))
         ELSE InOrder(buf \o Head(items), Tail(items))

\* C9: the result is the sequence of all non-empty decoded pieces (the
\* root marker for a first piece "file:") in input order; no piece
\* discards or replaces the pieces placed before it.
C9_InOrderReassembly ==
    pc = "path" =>
        LET pieces == split(input)
            items  == [i \in 1..Len(pieces) |->
                          IF i = 1 /\ pieces[i] = <<102, 105, 108, 101, 58>>
                          THEN <<47>>
                          ELSE decode_path_component(pieces[i])]
        IN  path_eq(path, InOrder(<<>>, items))

\* ------------------------------------------------------------------------
\* C10
\* ------------------------------------------------------------------------
\* C10: to_file_url never panics: once the root is skipped every remaining
\* component is a current-dir, parent-dir or normal component, and the call
\* returns a string.
C10_NoPanic ==
    /\ pc # "panic"
    /\ url # PANIC
    /\ pc = "url" =>
          \A i \in 1..Len(skip_root(input)) :
              skip_root(input)[i].kind \in {"CurDir", "ParentDir", "Normal"}

\* A rooted path with components after the root was converted.
C10_Witness ==
    /\ pc = "url"
    /\ has_root(input)
    /\ Len(components(input)) >= 2
====
